---- MODULE Spec2Model ----
(***************************************************************************)
(* State-machine model of frontend/src/TaskList.tsx: the TaskList React    *)
(* component (local task collection, filter, draft editor, view mode,      *)
(* drag-and-drop) together with the remote task store it talks to.         *)
(*                                                                         *)
(* Strings are sequences of one-character strings, so that trim(),         *)
(* toLowerCase(), includes() and toString() are computed, not assumed.     *)
(* The statuses "未着手", "進行中", "完了" are written NotStarted,           *)
(* InProgress, Done.                                                       *)
(***************************************************************************)
EXTENDS Integers, Sequences, FiniteSets, TLC

(***************************************************************************)
(* Bounds of the model.                                                    *)
(***************************************************************************)
\* total number of remote calls (fetch-all, create, update, delete) issued
MaxCalls == 3
\* longest string typed into the search input (SpecFilter) and the name input (SpecDraft)
MaxLen == 3

(***************************************************************************)
(* Strings.                                                                *)
(***************************************************************************)
Chars == {" ", "a", "A"}

\* String.prototype.toLowerCase, one character
LowerChar(c) == IF c = "A" THEN "a" ELSE c

\* String.prototype.toLowerCase
toLowerCase(s) == [i \in 1..Len(s) |-> LowerChar(s[i])]

RECURSIVE TrimStart(_)
TrimStart(s) ==
    IF s # <<>> /\ Head(s) = " " THEN TrimStart(Tail(s)) ELSE s

RECURSIVE TrimEnd(_)
TrimEnd(s) ==
    IF s # <<>> /\ s[Len(s)] = " " THEN TrimEnd(SubSeq(s, 1, Len(s) - 1)) ELSE s

\* trim as trimStart: trailing whitespace is kept
trim_StartOnly(s) == TrimStart(s)

\* String.prototype.trim
trim(s) == TrimEnd(TrimStart(s))

\* String.prototype.includes: scan the start positions left to right
RECURSIVE IncludesFrom(_, _, _)
IncludesFrom(s, q, i) ==
    IF i + Len(q) - 1 > Len(s) THEN FALSE
    ELSE IF SubSeq(s, i, i + Len(q) - 1) = q THEN TRUE
    ELSE IncludesFrom(s, q, i + 1)

\* includes that finds no occurrence of the empty string
includes_NothingForEmpty(s, q) == q # <<>> /\ IncludesFrom(s, q, 1)

includes(s, q) == IncludesFrom(s, q, 1)

\* the strings of at most n characters
RECURSIVE StringsUpTo(_)
StringsUpTo(n) ==
    IF n = 0 THEN {<<>>}
    ELSE LET shorter == StringsUpTo(n - 1)
         IN shorter \cup {Append(str, c) : str \in shorter, c \in Chars}

DigitChars == <<"0", "1", "2", "3", "4", "5", "6", "7", "8", "9">>

\* Number.prototype.toString for a non-negative integer
RECURSIVE toString(_)
toString(n) ==
    IF n < 10 THEN <<DigitChars[n + 1]>>
    ELSE Append(toString(n \div 10), DigitChars[(n % 10) + 1])

(***************************************************************************)
(* Statuses and tasks.                                                     *)
(***************************************************************************)
NotStarted == "NotStarted"
InProgress == "InProgress"
Done == "Done"

ALL_STATUSES == <<NotStarted, InProgress, Done>>

StatusType == {ALL_STATUSES[i] : i \in 1..Len(ALL_STATUSES)}

\* Array.prototype.includes on an array of statuses
ArrayIncludes(arr, x) == \E i \in 1..Len(arr) : arr[i] = x

Task(id, name, details, status, updated_at) ==
    [id |-> id, name |-> name, details |-> details, status |-> status,
     updated_at |-> updated_at]

(***************************************************************************)
(* State.                                                                  *)
(***************************************************************************)
VARIABLES
    search,              \* the URL's `view` parameter: [present, value]
    historyLen,          \* number of entries of the browser history
    mounted,             \* the mount effects have run
    viewMode,
    tasks,
    showSearch,
    filterText,
    selectedStatuses,
    showStatusDropdown,
    newTaskName,
    newTaskDetails,
    editingNewTask,
    dragging,            \* the board's latest drag: [active, draggableId, source, destination]
    calls,               \* every remote call issued so far, in issue order
    delivered,           \* ids of the calls whose response has been handled, in handling order
    store,               \* the remote store's collection
    nextId,              \* the id the remote store gives to the next created task
    clock                \* the remote store's clock, the source of updated_at

vars == <<search, historyLen, mounted, viewMode, tasks, showSearch, filterText,
          selectedStatuses, showStatusDropdown, newTaskName, newTaskDetails,
          editingNewTask, dragging, calls, delivered, store, nextId, clock>>

uiVars == <<showSearch, filterText, selectedStatuses, showStatusDropdown>>
draftVars == <<newTaskName, newTaskDetails, editingNewTask>>
viewVars == <<search, historyLen, viewMode>>
remoteVars == <<store, nextId, clock>>

(***************************************************************************)
(* Inputs.                                                                 *)
(***************************************************************************)
NoParam == [present |-> FALSE, value |-> ""]
Param(v) == [present |-> TRUE, value |-> v]

\* the URLs the page is opened with
UrlInputs == {NoParam, Param(""), Param("table"), Param("board"), Param("kanban")}

\* what the remote store holds when the page is opened
InitStores ==
    { <<>>,
      <<Task(1, <<"a">>, <<>>, NotStarted, 0), Task(2, <<"A">>, <<"a", " ", "a">>, Done, 0)>> }

\* what the user types into the draft's name input
NameInputs == {<<" ", "a", " ">>}

\* what the user types into the draft's name and details inputs (SpecDraft)
DraftNameInputs == {<<" ">>, <<" ", "a", " ">>}
DetailsInputs == {<<"A", " ">>}

\* what the user types into the search input
FilterInputs == {<<>>, <<"A", " ">>}

\* the checkboxes of the status dropdown the user clicks
ToggleInputs == {Done}

\* the keys pressed in the draft's inputs
KeyInputs == {"Enter", "Escape"}

\* a board with one more column than there are statuses
DroppableIds_Extra == StatusType \cup {"Archived"}

\* <Droppable droppableId={status}> for each of ALL_STATUSES
DroppableIds == StatusType

NoDestination == [present |-> FALSE, droppableId |-> ""]
Destination(d) == [present |-> TRUE, droppableId |-> d]
NoDrag == [active |-> FALSE, draggableId |-> <<>>, source |-> "",
           destination |-> NoDestination]

(***************************************************************************)
(* Remote calls (./api: fetchTasks, createTask, updateTask, deleteTask).   *)
(***************************************************************************)
Call(op, origin, parent, id, name, details, status) ==
    [op |-> op, origin |-> origin, parent |-> parent, id |-> id, name |-> name,
     details |-> details, status |-> status, stage |-> "sent", ok |-> FALSE,
     data |-> <<>>]

IsMutation(call) == call.op # "fetch"

\* calls whose response has not been handled yet
InFlight == {c \in 1..Len(calls) : calls[c].stage # "done"}

\* room for one more mutating call and for the reload each pending mutation may issue
CanIssue ==
    Len(calls) + Cardinality({c \in InFlight : IsMutation(calls[c])}) + 2 <= MaxCalls

\* the bound on a gesture: it issues a call only while there is room
WithinBound == (Len(calls') > Len(calls)) => CanIssue

\* the response of call c has been handled
Handled(c) == [calls EXCEPT ![c].stage = "done"]

(***************************************************************************)
(* Derived values of a render.                                             *)
(***************************************************************************)
\* const initialView = (params.get("view") as "table" | "board") || "table"
initialView(s) == IF s.present /\ s.value # "" THEN s.value ELSE "table"

\* viewMode === "table" ? <table> : <DragDropContext>
TableLayout == viewMode = "table"

matchText(task, text) ==
    \/ includes(toLowerCase(task.name), toLowerCase(text))
    \/ includes(toLowerCase(task.details), toLowerCase(text))

matchStatus(task, statuses) ==
    Len(statuses) = 0 \/ ArrayIncludes(statuses, task.status)

\* the filter with || in place of &&
FilterPredicate_Or(task, text, statuses) ==
    matchText(task, text) \/ matchStatus(task, statuses)

FilterPredicate(task, text, statuses) ==
    matchText(task, text) /\ matchStatus(task, statuses)

\* Array.prototype.filter: walk the array and keep the elements that pass
RECURSIVE Filter(_, _, _)
Filter(ts, text, statuses) ==
    IF ts = <<>> THEN <<>>
    ELSE IF FilterPredicate(Head(ts), text, statuses)
         THEN <<Head(ts)>> \o Filter(Tail(ts), text, statuses)
         ELSE Filter(Tail(ts), text, statuses)

filteredTasks == Filter(tasks, filterText, selectedStatuses)

\* Array.prototype.find on t.id.toString() === draggableId: index of the first hit, 0 if none
RECURSIVE FindFrom(_, _, _)
FindFrom(ts, draggableId, i) ==
    IF i > Len(ts) THEN 0
    ELSE IF toString(ts[i].id) = draggableId THEN i
    ELSE FindFrom(ts, draggableId, i + 1)

Find(ts, draggableId) == FindFrom(ts, draggableId, 1)

\* the dragged task looked up in the whole collection
findTaskToUpdate_AmongAllTasks(draggableId) ==
    IF Find(tasks, draggableId) = 0 THEN <<>>
    ELSE <<tasks[Find(tasks, draggableId)]>>

\* filteredTasks.find((t) => t.id.toString() === draggableId); <<>> is undefined
findTaskToUpdate(draggableId) ==
    IF Find(filteredTasks, draggableId) = 0 THEN <<>>
    ELSE <<filteredTasks[Find(filteredTasks, draggableId)]>>

(***************************************************************************)
(* Initial state: the first render, before the mount effects.              *)
(***************************************************************************)
Init ==
    /\ search \in UrlInputs
    /\ historyLen = 1
    /\ mounted = FALSE
    /\ viewMode = initialView(search)
    /\ tasks = <<>>
    /\ showSearch = FALSE
    /\ filterText = <<>>
    /\ selectedStatuses = <<>>
    /\ showStatusDropdown = FALSE
    /\ newTaskName = <<>>
    /\ newTaskDetails = <<>>
    /\ editingNewTask = FALSE
    /\ dragging = NoDrag
    /\ calls = <<>>
    /\ delivered = <<>>
    /\ store \in InitStores
    /\ nextId = Len(store) + 1
    /\ clock = 0

(***************************************************************************)
(* The calls the handlers issue.                                           *)
(***************************************************************************)
\* loadTasks up to its await: one fetchTasks() call
loadTasks(cs, origin, parent) ==
    Append(cs, Call("fetch", origin, parent, 0, <<>>, <<>>, ""))

\* createTask({name: newTaskName.trim(), details: newTaskDetails.trim(), status: "未着手"})
CreateCall(name, details) ==
    Call("create", "handleCreate", 0, 0, trim(name), trim(details), NotStarted)

\* updateTask(task.id, {name: task.name, details: task.details, status: newStatus})
StatusChangeCall(task, newStatus) ==
    Call("update", "handleStatusChange", 0, task.id, task.name, task.details, newStatus)

\* deleteTask(id)
DeleteCall(id) ==
    Call("delete", "handleDelete", 0, id, <<>>, <<>>, "")

\* the drag-end resends the task as it is, status included
DragEndCall_OldStatus(taskToUpdate, destination) ==
    Call("update", "handleDragEnd", 0, taskToUpdate.id, taskToUpdate.name,
         taskToUpdate.details, taskToUpdate.status)

\* updateTask(taskToUpdate.id, {name, details, status: destination.droppableId})
DragEndCall(taskToUpdate, destination) ==
    Call("update", "handleDragEnd", 0, taskToUpdate.id, taskToUpdate.name,
         taskToUpdate.details, destination.droppableId)

(***************************************************************************)
(* Mount: the two effects of the first render.                             *)
(***************************************************************************)
\* the effect without {replace: true}: every write pushes a history entry
navigate_Push(mode) ==
    /\ search' = Param(mode)
    /\ historyLen' = historyLen + 1

\* navigate({search: newParams.toString()}, {replace: true}) with view = viewMode
navigate(mode) ==
    /\ search' = Param(mode)
    /\ historyLen' = historyLen

Mount ==
    /\ ~mounted
    /\ mounted' = TRUE
    /\ calls' = loadTasks(calls, "mount", 0)
    /\ navigate(viewMode)
    /\ UNCHANGED <<viewMode, tasks, uiVars, draftVars, dragging, delivered, remoteVars>>

\* the user can act: the component is mounted and no card is being dragged
Interactive == mounted /\ ~dragging.active

(***************************************************************************)
(* View mode, search box and status dropdown.                              *)
(***************************************************************************)
\* onClick={() => setViewMode(mode)} and the [viewMode] effect; the table layout
\* unmounts the DragDropContext and its drag record with it
SetViewMode(mode) ==
    /\ Interactive
    /\ viewMode' = mode
    /\ IF mode # viewMode THEN navigate(mode) ELSE UNCHANGED <<search, historyLen>>
    /\ dragging' = IF mode = "table" THEN NoDrag ELSE dragging
    /\ UNCHANGED <<mounted, tasks, uiVars, draftVars, calls, delivered, remoteVars>>

SetShowSearch(b) ==
    /\ Interactive
    /\ showSearch = ~b
    /\ showSearch' = b
    /\ UNCHANGED <<viewVars, mounted, tasks, filterText, selectedStatuses,
                   showStatusDropdown, draftVars, dragging, calls, delivered, remoteVars>>

SetFilterText(text) ==
    /\ Interactive
    /\ showSearch
    /\ filterText' = text
    /\ UNCHANGED <<viewVars, mounted, tasks, showSearch, selectedStatuses,
                   showStatusDropdown, draftVars, dragging, calls, delivered, remoteVars>>

\* the dropdown button toggles, its close button sets false
SetShowStatusDropdown(b) ==
    /\ Interactive
    /\ showStatusDropdown = ~b
    /\ showStatusDropdown' = b
    /\ UNCHANGED <<viewVars, mounted, tasks, showSearch, filterText, selectedStatuses,
                   draftVars, dragging, calls, delivered, remoteVars>>

\* selectedStatuses.filter((s) => s !== status)
Without(statuses, status) == SelectSeq(statuses, LAMBDA x : x # status)

toggleStatus(status) ==
    /\ Interactive
    /\ showStatusDropdown
    /\ selectedStatuses' =
          IF ArrayIncludes(selectedStatuses, status)
          THEN Without(selectedStatuses, status)
          ELSE Append(selectedStatuses, status)
    /\ UNCHANGED <<viewVars, mounted, tasks, showSearch, filterText,
                   showStatusDropdown, draftVars, dragging, calls, delivered, remoteVars>>

ClearStatuses ==
    /\ Interactive
    /\ showStatusDropdown
    /\ selectedStatuses' = <<>>
    /\ UNCHANGED <<viewVars, mounted, tasks, showSearch, filterText,
                   showStatusDropdown, draftVars, dragging, calls, delivered, remoteVars>>

(***************************************************************************)
(* Draft editor.                                                           *)
(***************************************************************************)
\* the "＋ 新規タスクを追加" row
StartEditing ==
    /\ Interactive
    /\ TableLayout
    /\ ~editingNewTask
    /\ editingNewTask' = TRUE
    /\ UNCHANGED <<viewVars, mounted, tasks, uiVars, newTaskName, newTaskDetails,
                   dragging, calls, delivered, remoteVars>>

DraftShown == Interactive /\ TableLayout /\ editingNewTask

SetNewTaskName(name) ==
    /\ DraftShown
    /\ newTaskName' = name
    /\ UNCHANGED <<viewVars, mounted, tasks, uiVars, newTaskDetails, editingNewTask,
                   dragging, calls, delivered, remoteVars>>

SetNewTaskDetails(details) ==
    /\ DraftShown
    /\ newTaskDetails' = details
    /\ UNCHANGED <<viewVars, mounted, tasks, uiVars, newTaskName, editingNewTask,
                   dragging, calls, delivered, remoteVars>>

\* handleCreate up to its await
handleCreate ==
    IF trim(newTaskName) = <<>>
    THEN /\ editingNewTask' = FALSE
         /\ UNCHANGED <<newTaskName, newTaskDetails, calls>>
    ELSE /\ calls' = Append(calls, CreateCall(newTaskName, newTaskDetails))
         /\ UNCHANGED draftVars

\* handleCreate after its await, without setNewTaskDetails("")
ResumeCreate_KeepsDetails(c) ==
    IF calls[c].ok
    THEN /\ newTaskName' = <<>>
         /\ newTaskDetails' = newTaskDetails
         /\ editingNewTask' = FALSE
         /\ calls' = loadTasks(Handled(c), "handleCreate", c)
    ELSE /\ calls' = Handled(c)
         /\ UNCHANGED draftVars

\* handleCreate that clears the draft on success and does not reload
ResumeCreate_NoReload(c) ==
    IF calls[c].ok
    THEN /\ newTaskName' = <<>>
         /\ newTaskDetails' = <<>>
         /\ editingNewTask' = FALSE
         /\ calls' = Handled(c)
    ELSE /\ calls' = Handled(c)
         /\ UNCHANGED draftVars

\* handleCreate after its await
ResumeCreate(c) ==
    IF calls[c].ok
    THEN /\ newTaskName' = <<>>
         /\ newTaskDetails' = <<>>
         /\ editingNewTask' = FALSE
         /\ calls' = loadTasks(Handled(c), "handleCreate", c)
    ELSE /\ calls' = Handled(c)
         /\ UNCHANGED draftVars

handleKeyDown(key) ==
    /\ DraftShown
    /\ IF key = "Enter" THEN handleCreate ELSE UNCHANGED <<draftVars, calls>>
    /\ UNCHANGED <<viewVars, mounted, tasks, uiVars, dragging, delivered, remoteVars>>

\* the draft's confirm button
ConfirmClick ==
    /\ DraftShown
    /\ handleCreate
    /\ UNCHANGED <<viewVars, mounted, tasks, uiVars, dragging, delivered, remoteVars>>

\* the draft's cancel button
CancelClick ==
    /\ DraftShown
    /\ editingNewTask' = FALSE
    /\ newTaskName' = <<>>
    /\ newTaskDetails' = <<>>
    /\ UNCHANGED <<viewVars, mounted, tasks, uiVars, dragging, calls, delivered, remoteVars>>

(***************************************************************************)
(* Table rows: status selector and delete button.                          *)
(***************************************************************************)
\* handleStatusChange up to its await; the selector fires on a changed value only
handleStatusChange(i, newStatus) ==
    /\ Interactive
    /\ TableLayout
    /\ i \in 1..Len(filteredTasks)
    /\ newStatus # filteredTasks[i].status
    /\ calls' = Append(calls, StatusChangeCall(filteredTasks[i], newStatus))
    /\ UNCHANGED <<viewVars, mounted, tasks, uiVars, draftVars, dragging, delivered,
                   remoteVars>>

\* handleStatusChange after its await, without the loadTasks() call
ResumeStatusChange_NoReload(c) == calls' = Handled(c)

\* handleStatusChange after its await
ResumeStatusChange(c) ==
    IF calls[c].ok
    THEN calls' = loadTasks(Handled(c), "handleStatusChange", c)
    ELSE calls' = Handled(c)

\* handleDelete that removes the task from the local collection before the call
handleDelete_Optimistic(i) ==
    /\ Interactive
    /\ TableLayout
    /\ i \in 1..Len(filteredTasks)
    /\ tasks' = SelectSeq(tasks, LAMBDA t : t.id # filteredTasks[i].id)
    /\ calls' = Append(calls, DeleteCall(filteredTasks[i].id))
    /\ UNCHANGED <<viewVars, mounted, uiVars, draftVars, dragging, delivered,
                   remoteVars>>

\* handleDelete up to its await
handleDelete(i) ==
    /\ Interactive
    /\ TableLayout
    /\ i \in 1..Len(filteredTasks)
    /\ calls' = Append(calls, DeleteCall(filteredTasks[i].id))
    /\ UNCHANGED <<viewVars, mounted, tasks, uiVars, draftVars, dragging, delivered,
                   remoteVars>>

\* handleDelete with its reload in a finally block
ResumeDelete_ReloadsAlways(c) ==
    calls' = loadTasks(Handled(c), "handleDelete", c)

\* handleDelete after its await
ResumeDelete(c) ==
    IF calls[c].ok
    THEN calls' = loadTasks(Handled(c), "handleDelete", c)
    ELSE calls' = Handled(c)

(***************************************************************************)
(* Board: drag and drop.                                                   *)
(***************************************************************************)
\* the user picks up the card of a visible task from the column of its status
DragStart(i) ==
    /\ Interactive
    /\ ~TableLayout
    /\ i \in 1..Len(filteredTasks)
    /\ dragging' = [active |-> TRUE,
                    draggableId |-> toString(filteredTasks[i].id),
                    source |-> filteredTasks[i].status,
                    destination |-> NoDestination]
    /\ UNCHANGED <<viewVars, mounted, tasks, uiVars, draftVars, calls, delivered,
                   remoteVars>>

\* the drag-end without its same-group early return
DragEndIssues_NoSameGroupReturn(draggableId, source, destination) ==
    /\ destination.present
    /\ findTaskToUpdate(draggableId) # <<>>

\* the drag-end passes both early returns and finds its task among the visible ones
DragEndIssues(draggableId, source, destination) ==
    /\ destination.present
    /\ destination.droppableId # source
    /\ findTaskToUpdate(draggableId) # <<>>

\* handleDragEnd calling updateTask without await: the reload is issued at once
handleDragEnd_NoAwait(destination) ==
    /\ mounted
    /\ dragging.active
    /\ dragging' = [dragging EXCEPT !.active = FALSE, !.destination = destination]
    /\ IF DragEndIssues(dragging.draggableId, dragging.source, destination)
       THEN calls' = loadTasks(
                       Append(calls,
                              DragEndCall(findTaskToUpdate(dragging.draggableId)[1],
                                          destination)),
                       "handleDragEnd", Len(calls) + 1)
       ELSE UNCHANGED calls
    /\ UNCHANGED <<viewVars, mounted, tasks, uiVars, draftVars, delivered, remoteVars>>

\* handleDragEnd up to its await; result = {draggableId, source, destination}
handleDragEnd(destination) ==
    /\ mounted
    /\ dragging.active
    /\ dragging' = [dragging EXCEPT !.active = FALSE, !.destination = destination]
    /\ IF DragEndIssues(dragging.draggableId, dragging.source, destination)
       THEN calls' = Append(calls,
                   DragEndCall(findTaskToUpdate(dragging.draggableId)[1], destination))
       ELSE UNCHANGED calls
    /\ UNCHANGED <<viewVars, mounted, tasks, uiVars, draftVars, delivered, remoteVars>>

\* handleDragEnd after its await; a rejected updateTask is not caught
ResumeDragEnd(c) ==
    IF calls[c].ok
    THEN calls' = loadTasks(Handled(c), "handleDragEnd", c)
    ELSE calls' = Handled(c)

(***************************************************************************)
(* loadTasks after its await.                                              *)
(***************************************************************************)
\* loadTasks whose catch only logs
ResumeLoadTasks_KeepsOnFailure(c) ==
    /\ tasks' = IF calls[c].ok THEN calls[c].data ELSE tasks
    /\ calls' = Handled(c)

\* loadTasks that drops a response older than one already applied
ResumeLoadTasks_IgnoresStale(c) ==
    /\ tasks' = IF \E k \in 1..Len(delivered) :
                      calls[delivered[k]].op = "fetch" /\ delivered[k] > c
                THEN tasks
                ELSE IF calls[c].ok THEN calls[c].data ELSE <<>>
    /\ calls' = Handled(c)

ResumeLoadTasks(c) ==
    /\ tasks' = IF calls[c].ok THEN calls[c].data ELSE <<>>
    /\ calls' = Handled(c)

(***************************************************************************)
(* The remote store answers a call: it succeeds or fails.                  *)
(***************************************************************************)
HasId(ts, id) == \E i \in 1..Len(ts) : ts[i].id = id

Created(call) == Task(nextId, call.name, call.details, call.status, clock + 1)

Updated(ts, call) ==
    [i \in 1..Len(ts) |->
        IF ts[i].id = call.id
        THEN Task(call.id, call.name, call.details, call.status, clock + 1)
        ELSE ts[i]]

Deleted(ts, call) == SelectSeq(ts, LAMBDA t : t.id # call.id)

Answered(c, ok, data) ==
    [calls EXCEPT ![c].stage = "answered", ![c].ok = ok, ![c].data = data]

RemoteFetch(c) ==
    /\ c \in 1..Len(calls)
    /\ calls[c].stage = "sent"
    /\ calls[c].op = "fetch"
    /\ calls' = Answered(c, TRUE, store)
    /\ UNCHANGED <<viewVars, mounted, tasks, uiVars, draftVars, dragging, delivered,
                   remoteVars>>

RemoteCreate(c) ==
    /\ c \in 1..Len(calls)
    /\ calls[c].stage = "sent"
    /\ calls[c].op = "create"
    /\ store' = Append(store, Created(calls[c]))
    /\ nextId' = nextId + 1
    /\ clock' = clock + 1
    /\ calls' = Answered(c, TRUE, <<>>)
    /\ UNCHANGED <<viewVars, mounted, tasks, uiVars, draftVars, dragging, delivered>>

RemoteUpdate(c) ==
    /\ c \in 1..Len(calls)
    /\ calls[c].stage = "sent"
    /\ calls[c].op = "update"
    /\ HasId(store, calls[c].id)
    /\ store' = Updated(store, calls[c])
    /\ clock' = clock + 1
    /\ calls' = Answered(c, TRUE, <<>>)
    /\ UNCHANGED <<viewVars, mounted, tasks, uiVars, draftVars, dragging, delivered,
                   nextId>>

RemoteDelete(c) ==
    /\ c \in 1..Len(calls)
    /\ calls[c].stage = "sent"
    /\ calls[c].op = "delete"
    /\ HasId(store, calls[c].id)
    /\ store' = Deleted(store, calls[c])
    /\ clock' = clock + 1
    /\ calls' = Answered(c, TRUE, <<>>)
    /\ UNCHANGED <<viewVars, mounted, tasks, uiVars, draftVars, dragging, delivered,
                   nextId>>

\* any call can fail; a failed call leaves the store as it was
RemoteFail(c) ==
    /\ c \in 1..Len(calls)
    /\ calls[c].stage = "sent"
    /\ calls' = Answered(c, FALSE, <<>>)
    /\ UNCHANGED <<viewVars, mounted, tasks, uiVars, draftVars, dragging, delivered,
                   remoteVars>>

(***************************************************************************)
(* A response reaches the client: the awaiting handler resumes.            *)
(***************************************************************************)
Deliver(c) ==
    /\ c \in 1..Len(calls)
    /\ calls[c].stage = "answered"
    /\ delivered' = Append(delivered, c)
    /\ CASE calls[c].op = "fetch" ->
              ResumeLoadTasks(c) /\ UNCHANGED draftVars
         [] calls[c].op = "create" ->
              ResumeCreate(c) /\ UNCHANGED tasks
         [] calls[c].origin = "handleStatusChange" ->
              ResumeStatusChange(c) /\ UNCHANGED <<tasks, draftVars>>
         [] calls[c].origin = "handleDelete" ->
              ResumeDelete(c) /\ UNCHANGED <<tasks, draftVars>>
         [] OTHER ->
              ResumeDragEnd(c) /\ UNCHANGED <<tasks, draftVars>>
    /\ UNCHANGED <<viewVars, mounted, uiVars, dragging, remoteVars>>

(***************************************************************************)
(* Specification: the whole component and the remote store. The details    *)
(* input is typed into in SpecDraft.                                       *)
(***************************************************************************)
CallIds == 1..MaxCalls

Next ==
    \/ Mount
    \/ \E mode \in {"table", "board"} : SetViewMode(mode)
    \/ \E b \in BOOLEAN : SetShowSearch(b)
    \/ \E text \in FilterInputs : SetFilterText(text)
    \/ \E b \in BOOLEAN : SetShowStatusDropdown(b)
    \/ \E status \in ToggleInputs : toggleStatus(status)
    \/ ClearStatuses
    \/ StartEditing
    \/ \E name \in NameInputs : SetNewTaskName(name)
    \/ \E key \in KeyInputs : handleKeyDown(key) /\ WithinBound
    \/ ConfirmClick /\ WithinBound
    \/ CancelClick
    \/ \E i \in 1..Len(tasks), newStatus \in StatusType :
          handleStatusChange(i, newStatus) /\ WithinBound
    \/ \E i \in 1..Len(tasks) : handleDelete(i) /\ WithinBound
    \/ \E i \in 1..Len(tasks) : DragStart(i)
    \/ \E d \in DroppableIds : handleDragEnd(Destination(d)) /\ WithinBound
    \/ handleDragEnd(NoDestination)
    \/ \E c \in CallIds : RemoteFetch(c)
    \/ \E c \in CallIds : RemoteCreate(c)
    \/ \E c \in CallIds : RemoteUpdate(c)
    \/ \E c \in CallIds : RemoteDelete(c)
    \/ \E c \in CallIds : RemoteFail(c)
    \/ \E c \in CallIds : Deliver(c)

Spec == Init /\ [][Next]_vars

(***************************************************************************)
(* The same with a remote store that eventually answers every call sent    *)
(* to it, and an event loop that eventually resumes the handler awaiting   *)
(* an answered call.                                                       *)
(***************************************************************************)
RemoteAnswers(c) ==
    \/ RemoteFetch(c)
    \/ RemoteCreate(c)
    \/ RemoteUpdate(c)
    \/ RemoteDelete(c)
    \/ RemoteFail(c)

Fairness ==
    \A c \in CallIds : WF_vars(RemoteAnswers(c)) /\ WF_vars(Deliver(c))

\* the mounted component, table or board, with its first load in flight and a
\* draft typed: the gestures that mutate, their calls and their reloads
InitReload ==
    /\ viewMode \in {"table", "board"}
    /\ search = Param(viewMode)
    /\ historyLen = 1
    /\ mounted = TRUE
    /\ tasks = <<>>
    /\ showSearch = FALSE
    /\ filterText = <<>>
    /\ selectedStatuses = <<>>
    /\ showStatusDropdown = FALSE
    /\ newTaskName \in NameInputs
    /\ newTaskDetails = <<>>
    /\ editingNewTask = TRUE
    /\ dragging = NoDrag
    /\ calls = loadTasks(<<>>, "mount", 0)
    /\ delivered = <<>>
    /\ store \in InitStores
    /\ nextId = Len(store) + 1
    /\ clock = 0

NextReload ==
    \/ ConfirmClick /\ WithinBound
    \/ \E i \in 1..Len(tasks), newStatus \in StatusType :
          handleStatusChange(i, newStatus) /\ WithinBound
    \/ \E i \in 1..Len(tasks) : handleDelete(i) /\ WithinBound
    \/ \E i \in 1..Len(tasks) : DragStart(i)
    \/ \E d \in DroppableIds : handleDragEnd(Destination(d)) /\ WithinBound
    \/ handleDragEnd(NoDestination)
    \/ \E c \in CallIds : RemoteAnswers(c)
    \/ \E c \in CallIds : Deliver(c)

SpecReload == InitReload /\ [][NextReload]_vars /\ Fairness

(***************************************************************************)
(* The filter on its own: the component after its first load, for every    *)
(* collection of FilterCollections, with every search text of at most      *)
(* MaxLen characters and every selection of statuses.                      *)
(***************************************************************************)
FilterPool ==
    { Task(1, <<"a">>, <<>>, NotStarted, 0),
      Task(2, <<"A">>, <<"a", " ", "a">>, Done, 0),
      Task(3, <<"a", "A">>, <<" ">>, InProgress, 0),
      Task(4, <<"A", " ", "A">>, <<"A", "a">>, NotStarted, 0) }

FilterCollections ==
    {<<>>} \cup {<<t>> : t \in FilterPool}
           \cup {pair \in FilterPool \X FilterPool : pair[1] # pair[2]}

\* a fetchTasks() call of the mount effect, answered with data and handled
LoadedCall(data) ==
    [Call("fetch", "mount", 0, 0, <<>>, <<>>, "") EXCEPT
        !.stage = "done", !.ok = TRUE, !.data = data]

InitFilter ==
    /\ search = Param("table")
    /\ historyLen = 1
    /\ mounted = TRUE
    /\ viewMode = "table"
    /\ tasks \in FilterCollections
    /\ showSearch = FALSE
    /\ filterText = <<>>
    /\ selectedStatuses = <<>>
    /\ showStatusDropdown = FALSE
    /\ newTaskName = <<>>
    /\ newTaskDetails = <<>>
    /\ editingNewTask = FALSE
    /\ dragging = NoDrag
    /\ calls = <<LoadedCall(tasks)>>
    /\ delivered = <<1>>
    /\ store = tasks
    /\ nextId = Cardinality(FilterPool) + 1
    /\ clock = 0

NextFilter ==
    \/ \E b \in BOOLEAN : SetShowSearch(b)
    \/ \E text \in StringsUpTo(MaxLen) : SetFilterText(text)
    \/ \E b \in BOOLEAN : SetShowStatusDropdown(b)
    \/ \E status \in StatusType : toggleStatus(status)
    \/ ClearStatuses

SpecFilter == InitFilter /\ [][NextFilter]_vars

(***************************************************************************)
(* The draft editor on its own: the mounted table with its first load in   *)
(* flight and the editor open on a typed draft, for every name of at most  *)
(* MaxLen characters; then typing, submissions, cancellations and the      *)
(* create calls.                                                           *)
(***************************************************************************)
InitDraft ==
    /\ search = Param("table")
    /\ historyLen = 1
    /\ mounted = TRUE
    /\ viewMode = "table"
    /\ tasks = <<>>
    /\ showSearch = FALSE
    /\ filterText = <<>>
    /\ selectedStatuses = <<>>
    /\ showStatusDropdown = FALSE
    /\ newTaskName \in StringsUpTo(MaxLen)
    /\ newTaskDetails \in {<<>>} \cup DetailsInputs
    /\ editingNewTask = TRUE
    /\ dragging = NoDrag
    /\ calls = loadTasks(<<>>, "mount", 0)
    /\ delivered = <<>>
    /\ store \in InitStores
    /\ nextId = Len(store) + 1
    /\ clock = 0

NextDraft ==
    \/ StartEditing
    \/ \E name \in DraftNameInputs : SetNewTaskName(name)
    \/ \E details \in DetailsInputs : SetNewTaskDetails(details)
    \/ \E key \in KeyInputs : handleKeyDown(key) /\ WithinBound
    \/ ConfirmClick /\ WithinBound
    \/ CancelClick
    \/ \E c \in CallIds : RemoteFetch(c)
    \/ \E c \in CallIds : RemoteCreate(c)
    \/ \E c \in CallIds : RemoteFail(c)
    \/ \E c \in CallIds : Deliver(c)

SpecDraft == InitDraft /\ [][NextDraft]_vars

(***************************************************************************)
(* The board on its own: the mounted board after its first load, with or   *)
(* without a status selected in the filter; then drags, drops and the      *)
(* update calls and reloads they cause. Two more calls than MaxCalls can   *)
(* be issued, so that a second drag-end can follow the reload of a first.  *)
(***************************************************************************)
CallIdsWide == 1..(MaxCalls + 2)

CanIssueWide ==
    Len(calls) + Cardinality({c \in InFlight : IsMutation(calls[c])}) + 2 <= MaxCalls + 2

WithinBoundWide == (Len(calls') > Len(calls)) => CanIssueWide

InitBoard ==
    /\ search = Param("board")
    /\ historyLen = 1
    /\ mounted = TRUE
    /\ viewMode = "board"
    /\ store \in InitStores \ {<<>>}
    /\ tasks = store
    /\ showSearch = FALSE
    /\ filterText = <<>>
    /\ selectedStatuses \in {<<>>} \cup {<<status>> : status \in ToggleInputs}
    /\ showStatusDropdown = FALSE
    /\ newTaskName = <<>>
    /\ newTaskDetails = <<>>
    /\ editingNewTask = FALSE
    /\ dragging = NoDrag
    /\ calls = <<LoadedCall(tasks)>>
    /\ delivered = <<1>>
    /\ nextId = Len(store) + 1
    /\ clock = 0

NextBoard ==
    \/ \E i \in 1..Len(tasks) : DragStart(i)
    \/ \E d \in DroppableIds : handleDragEnd(Destination(d)) /\ WithinBoundWide
    \/ handleDragEnd(NoDestination)
    \/ \E c \in CallIdsWide : RemoteFetch(c)
    \/ \E c \in CallIdsWide : RemoteUpdate(c)
    \/ \E c \in CallIdsWide : RemoteFail(c)
    \/ \E c \in CallIdsWide : Deliver(c)

SpecBoard == InitBoard /\ [][NextBoard]_vars

(***************************************************************************)
(* One draft: the mounted table with its first load in flight and the      *)
(* editor just opened. The row that opens the editor is not clicked again, *)
(* so every create call of a behaviour belongs to this one draft. Two more *)
(* calls than MaxCalls can be issued.                                      *)
(***************************************************************************)
InitOneDraft ==
    /\ search = Param("table")
    /\ historyLen = 1
    /\ mounted = TRUE
    /\ viewMode = "table"
    /\ tasks = <<>>
    /\ showSearch = FALSE
    /\ filterText = <<>>
    /\ selectedStatuses = <<>>
    /\ showStatusDropdown = FALSE
    /\ newTaskName = <<>>
    /\ newTaskDetails = <<>>
    /\ editingNewTask = TRUE
    /\ dragging = NoDrag
    /\ calls = loadTasks(<<>>, "mount", 0)
    /\ delivered = <<>>
    /\ store \in InitStores
    /\ nextId = Len(store) + 1
    /\ clock = 0

NextOneDraft ==
    \/ \E name \in DraftNameInputs : SetNewTaskName(name)
    \/ \E details \in DetailsInputs : SetNewTaskDetails(details)
    \/ \E key \in KeyInputs : handleKeyDown(key) /\ WithinBoundWide
    \/ ConfirmClick /\ WithinBoundWide
    \/ CancelClick
    \/ \E c \in CallIdsWide : RemoteFetch(c)
    \/ \E c \in CallIdsWide : RemoteCreate(c)
    \/ \E c \in CallIdsWide : RemoteFail(c)
    \/ \E c \in CallIdsWide : Deliver(c)

SpecOneDraft == InitOneDraft /\ [][NextOneDraft]_vars

(***************************************************************************)
(* Vocabulary of the properties.                                           *)
(***************************************************************************)
Issued == 1..Len(calls)

Range(seq) == {seq[i] : i \in 1..Len(seq)}

\* the response of call c is handled in this step
Resumes(c) == c \in Issued /\ calls[c].stage = "answered" /\ calls'[c].stage = "done"

\* this step issues a call: the new call is the last one of calls'
IssuesCall == Len(calls') = Len(calls) + 1

NewCall == calls'[Len(calls')]

\* the fetch-all calls whose response has been applied, in the order applied
FetchesApplied == SelectSeq(delivered, LAMBDA c : calls[c].op = "fetch")

LastApplied == FetchesApplied[Len(FetchesApplied)]

\* the fetch-all calls issued
FetchesIssued == {c \in Issued : calls[c].op = "fetch"}

\* the reloads issued by the handler that awaited call c
ReloadsOf(c) == {f \in FetchesIssued : calls[f].parent = c}

Quiescent == mounted /\ InFlight = {}

Idle == ~editingNewTask

FieldsCleared == newTaskName = <<>> /\ newTaskDetails = <<>>

\* this step is a submission of the draft: Enter in an input, or the confirm button
Submits == handleKeyDown("Enter") \/ ConfirmClick

(***************************************************************************)
(* C1. The client never diverges from the remote store: whenever no remote *)
(* call is in flight and the last fetch-all response applied was a         *)
(* success, the local collection equals the remote store's collection.     *)
(***************************************************************************)
C1_NeverDiverges ==
    (Quiescent /\ FetchesApplied # <<>> /\ calls[LastApplied].ok) => tasks = store

\* C1 as amended: ... and that response answers the fetch-all issued last.
C1_NeverDivergesAfterLatestFetch ==
    ( /\ Quiescent
      /\ FetchesApplied # <<>>
      /\ calls[LastApplied].ok
      /\ \A f \in FetchesIssued : f <= LastApplied ) => tasks = store

\* a mutation succeeded, its reload was applied last, and the client shows the new store
C1_Witness ==
    /\ Quiescent
    /\ FetchesApplied # <<>>
    /\ calls[LastApplied].ok
    /\ \A f \in FetchesIssued : f <= LastApplied
    /\ calls[LastApplied].parent # 0
    /\ tasks = store
    /\ \E f \in FetchesIssued : calls[f].ok /\ calls[f].data # store

(***************************************************************************)
(* C2. Submitting the draft while Editing always returns the editor to     *)
(* Idle with both fields cleared, whether the create call succeeds or      *)
(* fails: once the response of the submission's create call is handled,    *)
(* the editor is Idle and both fields are empty.                           *)
(***************************************************************************)
C2_SubmitReturnsToIdleCleared ==
    [][ \A c \in CallIds :
           (Resumes(c) /\ calls[c].op = "create") => (Idle' /\ FieldsCleared') ]_vars

\* C2 as amended: the editor returns to Idle with both fields cleared when the
\* create call succeeds; when it fails the draft is left as it was.
C2_SubmitClearsOnSuccessOnly ==
    [][ \A c \in CallIds :
           (Resumes(c) /\ calls[c].op = "create") =>
               IF calls[c].ok THEN Idle' /\ FieldsCleared' ELSE UNCHANGED draftVars ]_vars

\* a draft with a name and details was submitted, its create call succeeded and was handled
C2_Witness ==
    \E c \in Issued :
        /\ calls[c].op = "create" /\ calls[c].stage = "done" /\ calls[c].ok
        /\ calls[c].details # <<>>
        /\ ReloadsOf(c) # {}
        /\ Idle /\ FieldsCleared

(***************************************************************************)
(* C3. Submitting the draft with a name that is empty or only whitespace   *)
(* issues no create call and leaves the editor Idle with both the name     *)
(* field and the details field equal to the empty string.                  *)
(***************************************************************************)
IsBlank(str) == \A i \in 1..Len(str) : str[i] = " "

C3_BlankSubmitClearsDraft ==
    [][ (Submits /\ IsBlank(newTaskName)) =>
            (calls' = calls /\ Idle' /\ FieldsCleared') ]_vars

(***************************************************************************)
(* C4. The view mode is always one of table and board: at mount it is the  *)
(* URL's view parameter when that is table or board, and table otherwise.  *)
(***************************************************************************)
C4_ViewModeIsTableOrBoard ==
    /\ viewMode \in {"table", "board"}
    /\ ~mounted =>
          viewMode = IF search \in {Param("table"), Param("board")}
                     THEN search.value ELSE "table"

(***************************************************************************)
(* C5. A drag-end that moves a task of the visible subset from the         *)
(* NotStarted group to the Done group issues exactly one update call,      *)
(* carrying that task's id, its current name and details and status Done,  *)
(* and is followed by exactly one reload issued by that drag-end.          *)
(***************************************************************************)
\* this step is a drag-end of the visible task at index i from NotStarted to Done
MovesToDone(i) ==
    /\ handleDragEnd(Destination(Done))
    /\ dragging.source = NotStarted
    /\ i \in 1..Len(filteredTasks)
    /\ toString(filteredTasks[i].id) = dragging.draggableId

IssuesOneUpdateFor(task) ==
    /\ calls' = Append(calls, NewCall)
    /\ NewCall.op = "update"
    /\ NewCall.stage = "sent"
    /\ NewCall.id = task.id
    /\ NewCall.name = task.name
    /\ NewCall.details = task.details
    /\ NewCall.status = Done

DragCalls == {c \in Issued : calls[c].origin = "handleDragEnd" /\ calls[c].op = "update"}

\* C5 as claimed, in a form a finite run refutes: every drag-end to Done whose
\* update has been answered and handled has issued exactly one reload
C5_DragEndAlwaysReloads ==
    \A c \in DragCalls :
        (calls[c].status = Done /\ calls[c].stage = "done") => Cardinality(ReloadsOf(c)) = 1

\* C5 as amended: ... and, when that update call succeeds, is followed by exactly
\* one reload issued by that drag-end; when it fails, by none.
C5_DragToDoneUpdatesThenReloadsOnSuccess ==
    /\ [][ \A i \in 1..Len(tasks) : MovesToDone(i) => IssuesOneUpdateFor(filteredTasks[i]) ]_vars
    /\ [](\A c \in DragCalls :
             Cardinality(ReloadsOf(c)) =
                 IF calls[c].stage = "done" /\ calls[c].ok THEN 1 ELSE 0)

\* a card was dragged from NotStarted to Done, its update succeeded and its reload was issued
C5_Witness ==
    /\ ~dragging.active
    /\ dragging.source = NotStarted
    /\ dragging.destination = Destination(Done)
    /\ \E c \in DragCalls :
          /\ toString(calls[c].id) = dragging.draggableId
          /\ calls[c].status = Done
          /\ calls[c].stage = "done" /\ calls[c].ok
          /\ Cardinality(ReloadsOf(c)) = 1

(***************************************************************************)
(* C6. A drag-end whose destination is absent, or whose destination        *)
(* grouping key equals its source grouping key, issues zero update calls   *)
(* and zero reloads and leaves the local collection, filter state, draft   *)
(* state and view mode unchanged.                                          *)
(***************************************************************************)
DragResults == {NoDestination} \cup {Destination(d) : d \in DroppableIds}

C6_CancelledOrSameGroupDragIsNoOp ==
    [][ \A d \in DragResults :
           (handleDragEnd(d) /\ (~d.present \/ d.droppableId = dragging.source)) =>
               UNCHANGED <<calls, tasks, filterText, selectedStatuses, draftVars,
                           viewMode>> ]_vars

\* a card of a loaded collection was dropped back on its own column
C6_Witness ==
    /\ ~dragging.active
    /\ dragging.draggableId # <<>>
    /\ dragging.destination = Destination(dragging.source)
    /\ tasks # <<>>
    /\ DragCalls = {}

(***************************************************************************)
(* C7. The visible subset is exactly the order-preserving subsequence of   *)
(* the collection containing the tasks for which (the query is empty, or   *)
(* is a case-insensitive substring of the name or of the details) and      *)
(* (the status set is empty, or the task's status is in the set).          *)
(***************************************************************************)
SameLetter(x, y) == x = y \/ {x, y} = {"a", "A"}

\* q occurs in str at some offset, letter case ignored
CaseInsensitiveSubstring(q, str) ==
    \E off \in 0..Len(str) :
        /\ off + Len(q) <= Len(str)
        /\ \A k \in 1..Len(q) : SameLetter(q[k], str[off + k])

ShouldBeVisible(task) ==
    /\ \/ filterText = <<>>
       \/ CaseInsensitiveSubstring(filterText, task.name)
       \/ CaseInsensitiveSubstring(filterText, task.details)
    /\ \/ selectedStatuses = <<>>
       \/ task.status \in Range(selectedStatuses)

C7_VisibleSubsetIsFilteredSubsequence ==
    LET keep == {i \in 1..Len(tasks) : ShouldBeVisible(tasks[i])}
        rank(i) == Cardinality({j \in keep : j <= i})
    IN /\ Len(filteredTasks) = Cardinality(keep)
       /\ \A i \in keep : filteredTasks[rank(i)] = tasks[i]

\* of two tasks matching a mixed-case query, the first is hidden by the status set
C7_Witness ==
    /\ Len(tasks) = 2
    /\ filterText = <<"A", "a">>
    /\ selectedStatuses # <<>>
    /\ matchText(tasks[1], filterText) /\ ~matchStatus(tasks[1], selectedStatuses)
    /\ filteredTasks = <<tasks[2]>>

(***************************************************************************)
(* C8. When a fetch-all call fails, applying its failure response sets the *)
(* local collection, and so the visible subset, to the empty collection,   *)
(* whatever non-empty collection was held before.                          *)
(***************************************************************************)
C8_FailedFetchEmptiesCollection ==
    [][ \A c \in CallIds :
           (Resumes(c) /\ calls[c].op = "fetch" /\ ~calls[c].ok) =>
               (tasks' = <<>> /\ filteredTasks' = <<>>) ]_vars

\* a non-empty snapshot was applied, and the failure of a later fetch-all has just emptied it
C8_Witness ==
    /\ Len(FetchesApplied) >= 2
    /\ delivered[Len(delivered)] = LastApplied
    /\ ~calls[LastApplied].ok
    /\ LET before == FetchesApplied[Len(FetchesApplied) - 1]
       IN calls[before].ok /\ calls[before].data # <<>>
    /\ tasks = <<>>

(***************************************************************************)
(* C9. Every create call issued by a draft submission carries the draft    *)
(* name with leading and trailing whitespace removed (never an empty name) *)
(* and status NotStarted.                                                  *)
(***************************************************************************)
\* t is str without its leading and trailing spaces
IsTrimOf(t, str) ==
    /\ t = <<>> \/ (t[1] # " " /\ t[Len(t)] # " ")
    /\ \E lead \in 0..Len(str) :
          /\ lead + Len(t) <= Len(str)
          /\ \A k \in 1..Len(str) :
                IF k > lead /\ k <= lead + Len(t) THEN str[k] = t[k - lead]
                ELSE str[k] = " "

C9_CreateCarriesTrimmedNameAndNotStarted ==
    [][ (IssuesCall /\ NewCall.op = "create") =>
            /\ IsTrimOf(NewCall.name, newTaskName)
            /\ NewCall.name # <<>>
            /\ NewCall.status = "NotStarted" ]_vars

\* the draft " a " has been submitted and its create call carries "a"
C9_Witness ==
    /\ newTaskName = <<" ", "a", " ">>
    /\ \E c \in Issued :
          /\ calls[c].op = "create" /\ calls[c].stage = "sent"
          /\ calls[c].name = <<"a">>
          /\ calls[c].status = "NotStarted"

(***************************************************************************)
(* C10. In every reachable state the status of every task of the local     *)
(* collection, and the status carried by every create or update call, is   *)
(* one of NotStarted, InProgress, Done.                                    *)
(***************************************************************************)
C10_StatusIsOneOfThree ==
    /\ \A t \in Range(tasks) : t.status \in {"NotStarted", "InProgress", "Done"}
    /\ \A c \in Issued :
          calls[c].op \in {"create", "update"} =>
              calls[c].status \in {"NotStarted", "InProgress", "Done"}

\* a card was dragged to InProgress and the reloaded collection shows it there
C10_Witness ==
    /\ \E c \in DragCalls : calls[c].status = "InProgress" /\ calls[c].ok
    /\ \E t \in Range(tasks) : t.status = "InProgress" /\ t.updated_at > 0

(***************************************************************************)
(* C11. The view mode is mirrored to the URL: once the component is        *)
(* mounted, and after every change of the view mode, the view parameter of *)
(* the URL equals the view mode in memory, and no step adds a history      *)
(* entry (the effect writes with replace).                                 *)
(***************************************************************************)
C11_ViewModeMirroredToUrl ==
    /\ [](mounted => search = Param(viewMode))
    /\ [][historyLen' = historyLen]_vars

\* the editor was opened in the table, then the view was changed to the board,
\* and the URL says board with the one history entry the page started with
C11_Witness ==
    /\ mounted
    /\ editingNewTask
    /\ viewMode = "board"
    /\ search = Param("board")
    /\ historyLen = 1

(***************************************************************************)
(* C12. A failed mutation changes nothing on the client: when the response *)
(* of a create, update (status selector or drag-end) or delete call that   *)
(* failed is handled, the local collection is left unchanged and no call   *)
(* (so no fetch-all) is issued.                                            *)
(***************************************************************************)
C12_FailedMutationChangesNothing ==
    [][ \A c \in Issued :
          (Resumes(c) /\ IsMutation(calls[c]) /\ ~calls[c].ok) =>
              /\ tasks' = tasks
              /\ Len(calls') = Len(calls)
              /\ ReloadsOf(c)' = {} ]_vars

\* a delete failed and was handled: no reload of it exists, the collection is
\* still the loaded one and the store still holds the task
C12_Witness ==
    /\ tasks # <<>>
    /\ \E c \in Issued :
          /\ calls[c].op = "delete" /\ calls[c].stage = "done" /\ ~calls[c].ok
          /\ ReloadsOf(c) = {}
          /\ HasId(tasks, calls[c].id)
          /\ HasId(store, calls[c].id)

(***************************************************************************)
(* C13. Each drag-end is atomic: from the moment a drag-end has issued its *)
(* update call until the response of the reload it triggers has been       *)
(* applied, every step is the answering or the handling of a call, never a *)
(* user gesture.                                                           *)
(***************************************************************************)
\* a drag-end has issued its update and the reload it triggers is not applied yet
DragEndPending ==
    \E c \in DragCalls :
       \/ calls[c].stage # "done"
       \/ calls[c].ok /\ \E f \in ReloadsOf(c) : calls[f].stage # "done"

\* this step is the remote store answering a call or a handler resuming on a response
ResponseStep == \E c \in Issued : calls'[c].stage # calls[c].stage

C13_DragEndIsAtomic ==
    [][ DragEndPending => ResponseStep ]_vars

\* what a call asks of the remote store
Payload(call) ==
    [op |-> call.op, origin |-> call.origin, id |-> call.id, name |-> call.name,
     details |-> call.details, status |-> call.status]

\* C13 as amended: only the part of a drag-end up to its update call is atomic.
\* While the update or the reload is in flight other gestures are handled, and
\* none of them changes what the drag-end does: its update call stays as issued,
\* and its one reload is issued in the step that handles the update's success
\* response, in no other step.
C13_PendingDragEndUnaffected ==
    [][ \A c \in DragCalls :
          /\ Payload(calls'[c]) = Payload(calls[c])
          /\ (ReloadsOf(c)' # ReloadsOf(c)) =>
                 /\ Resumes(c)
                 /\ calls[c].ok
                 /\ Cardinality(ReloadsOf(c)') = 1 ]_vars

\* a second card is being dragged while the update call of the previous drag-end
\* is still in flight
C13_Witness ==
    /\ dragging.active
    /\ \E c \in DragCalls : calls[c].stage # "done"

(***************************************************************************)
(* C14. A drag-end between two different groups resolves the dragged id    *)
(* against the visible (filtered) tasks only: when no visible task has the *)
(* dragged id, even if a task of the whole collection has it, the drag-end *)
(* issues no call (no update, so no reload) and changes neither the        *)
(* collection nor any other state of the component except that the drag    *)
(* is over.                                                                *)
(***************************************************************************)
\* no task of the visible subset has the dragged id
DraggedIsHidden ==
    \A i \in 1..Len(filteredTasks) : toString(filteredTasks[i].id) # dragging.draggableId

\* a task of the whole collection has the dragged id
DraggedIsLoaded ==
    \E i \in 1..Len(tasks) : toString(tasks[i].id) = dragging.draggableId

C14_DragOfHiddenTaskIsNoOp ==
    [][ \A d \in DroppableIds :
          ( /\ handleDragEnd(Destination(d))
            /\ d # dragging.source
            /\ DraggedIsHidden ) =>
              /\ calls' = calls
              /\ tasks' = tasks
              /\ UNCHANGED <<viewVars, uiVars, draftVars, delivered, remoteVars>> ]_vars

\* a card was dropped on another group after a reload applied during the drag had
\* moved its task out of the visible subset: the task is in the collection, hidden
\* by the status filter, and no drag-end has issued an update to the group of the drop
C14_Witness ==
    /\ ~dragging.active
    /\ dragging.destination.present
    /\ dragging.destination.droppableId # dragging.source
    /\ DraggedIsHidden
    /\ DraggedIsLoaded
    /\ \A c \in DragCalls : calls[c].status # dragging.destination.droppableId

(***************************************************************************)
(* C15. Every successful create, update or delete is followed by its       *)
(* reload: the handler issues exactly one fetch-all, in the step that      *)
(* handles the success response (none before, none for a failure), and,    *)
(* the remote store answering every call, the response of that fetch-all   *)
(* is eventually applied to the local collection.                          *)
(***************************************************************************)
\* the mutations the remote store has answered with a success
Succeeded == {c \in Issued : IsMutation(calls[c]) /\ calls[c].stage # "sent" /\ calls[c].ok}

C15_SuccessIsFollowedByReload ==
    /\ [](\A c \in Issued :
             IsMutation(calls[c]) =>
                 /\ Cardinality(ReloadsOf(c)) =
                        IF c \in Succeeded /\ calls[c].stage = "done" THEN 1 ELSE 0
                 /\ \A f \in ReloadsOf(c) : f > c)
    /\ \A c \in CallIds :
          (c \in Succeeded) ~> (\E f \in ReloadsOf(c) : calls[f].stage = "done")

\* a mutation succeeded, its one reload was answered with the store's collection
\* and that response is the last one applied to the local collection
C15_Witness ==
    /\ FetchesApplied # <<>>
    /\ \E c \in Succeeded :
          /\ ReloadsOf(c) = {LastApplied}
          /\ calls[LastApplied].ok
          /\ tasks = calls[LastApplied].data
          /\ tasks = store

(***************************************************************************)
(* C16. The filter query is trimmed before matching: two queries that      *)
(* differ only in leading or trailing whitespace give the same visible     *)
(* subset.                                                                 *)
(***************************************************************************)
\* p and q are the same text between different leading and trailing spaces
DifferOnlyInOuterSpaces(p, q) ==
    \E core \in StringsUpTo(MaxLen) : IsTrimOf(core, p) /\ IsTrimOf(core, q)

\* the visible subset the component would show for the query q
VisibleUnder(q) == Filter(tasks, q, selectedStatuses)

C16_FilterQueryIsTrimmed ==
    \A q \in StringsUpTo(MaxLen) :
        DifferOnlyInOuterSpaces(q, filterText) => VisibleUnder(q) = filteredTasks

\* C16 as amended: the query is matched as typed, without trimming; two queries
\* that differ only in leading or trailing whitespace can give different visible
\* subsets, and every task visible under a query is also visible under that
\* query without its leading and trailing whitespace.
C16_UntrimmedQueryOnlyNarrows ==
    \A q \in StringsUpTo(MaxLen) :
        IsTrimOf(q, filterText) => Range(filteredTasks) \subseteq Range(VisibleUnder(q))

\* the query "a " shows a task whose details have an "a" before a space, and
\* fewer tasks than the query "a"
C16_Witness ==
    /\ filterText = <<"a", " ">>
    /\ filteredTasks # <<>>
    /\ Len(filteredTasks) < Len(VisibleUnder(<<"a">>))

(***************************************************************************)
(* C17. Reloads are not sequenced: the local collection is always what the *)
(* fetch-all response applied last said (its snapshot, or empty if it      *)
(* failed), whatever the order in which the fetch-all calls were issued;   *)
(* two reloads can overlap, and when the response of the one issued first  *)
(* is applied last the collection is its older snapshot.                   *)
(***************************************************************************)
C17_LastAppliedResponseWins ==
    FetchesApplied # <<>> =>
        tasks = IF calls[LastApplied].ok THEN calls[LastApplied].data ELSE <<>>

\* two drag-ends succeeded, the second issued while the reload of the first was
\* in flight; the reload of the second was applied first and the reload of the
\* first, issued earlier, last: the collection is its older snapshot
C17_Witness ==
    \E m1, m2 \in Succeeded :
      \E f1 \in ReloadsOf(m1), f2 \in ReloadsOf(m2) :
        /\ m1 < m2 /\ m2 < f2
        /\ f1 < f2
        /\ Len(FetchesApplied) >= 2
        /\ FetchesApplied[Len(FetchesApplied) - 1] = f2
        /\ LastApplied = f1
        /\ calls[f1].ok /\ calls[f2].ok
        /\ calls[f1].data # calls[f2].data
        /\ tasks = calls[f1].data
        /\ tasks # store

(***************************************************************************)
(* C18. The editor always opens empty: in every step that takes the draft  *)
(* editor from Idle to Editing, the name field and the details field are   *)
(* both the empty string, whatever submits, cancels and failed creates     *)
(* came before.                                                            *)
(***************************************************************************)
C18_EditorOpensEmpty ==
    [][ (Idle /\ ~Idle') => FieldsCleared' ]_vars

(***************************************************************************)
(* C19. No gesture handler patches the local collection: it changes only   *)
(* in a step that applies a fetch-all response; in every reachable state   *)
(* it is empty (initially, or after a failed fetch-all) or exactly the     *)
(* snapshot the remote store returned to some fetch-all; and the step that *)
(* issues a create, update or delete call, or handles its response, leaves *)
(* it as it is.                                                            *)
(***************************************************************************)
\* this step issues a mutating call or handles the response of one
MutationStep ==
    \/ IssuesCall /\ IsMutation(NewCall)
    \/ \E c \in Issued : IsMutation(calls[c]) /\ Resumes(c)

C19_CollectionOnlySetByReload ==
    /\ [][ tasks' # tasks => \E f \in FetchesIssued : Resumes(f) ]_vars
    /\ [][ MutationStep => tasks' = tasks ]_vars
    /\ [](\/ tasks = <<>>
          \/ \E f \in FetchesIssued :
                calls[f].stage = "done" /\ calls[f].ok /\ calls[f].data = tasks)

\* a delete succeeded and its response was handled, its reload is not applied
\* yet: the collection is still the snapshot loaded before, with the deleted task
C19_Witness ==
    \E c \in Succeeded :
        /\ calls[c].op = "delete" /\ calls[c].stage = "done"
        /\ \E f \in ReloadsOf(c) : calls[f].stage # "done"
        /\ HasId(tasks, calls[c].id)
        /\ ~HasId(store, calls[c].id)
        /\ \E f \in FetchesIssued : f < c /\ calls[f].ok /\ calls[f].data = tasks

(***************************************************************************)
(* C20. One draft produces at most one create call: from the step that     *)
(* opens the editor to its next return to Idle at most one create call is  *)
(* issued, also when the user submits again while the create call of an    *)
(* earlier submit is in flight. (Under SpecOneDraft the editor is opened   *)
(* once, so the create calls of a behaviour are those of one draft.)       *)
(***************************************************************************)
CreateCalls == {c \in Issued : calls[c].op = "create"}

C20_OneCreatePerDraft ==
    Cardinality(CreateCalls) <= 1

====
